---- MODULE Spec2Model ----
(***************************************************************************)
(* Ledger core of the Paystack wallet service (WalletService and the       *)
(* webhook endpoint of WalletController) over its PostgreSQL tables.       *)
(*                                                                         *)
(* Every request runs in its own process.  A process takes one step per    *)
(* awaited database or gateway call; the synchronous code between two      *)
(* awaits belongs to the step of the await that precedes it.  The tables   *)
(* hold committed rows only: the writes of an open $transaction are kept   *)
(* in the position (pc) and the locals of the process that made them,      *)
(* together with the row locks they took, and reach the tables in the      *)
(* step that commits (READ COMMITTED, the isolation level Prisma leaves    *)
(* at PostgreSQL's default).                                               *)
(*                                                                         *)
(* Money is counted in whole naira; gateway amounts are in kobo.           *)
(***************************************************************************)
EXTENDS Integers, FiniteSets, Sequences, TLC

VARIABLES
    wallets,    \* table Wallet: set of rows [userId, walletNumber, balance]
    txns,       \* table Transaction: set of rows
    now,        \* the last value Date.now() returned
    pc,         \* per process: the await it is suspended at
    local,      \* per process: arguments and local variables of its call
    res,        \* per process: what its call returned or threw
    credits     \* history: per deposit reference, balance credits committed

vars == <<wallets, txns, now, pc, local, res, credits>>

----------------------------------------------------------------------------
(* Bounds *)

MaxTime == 1         \* last value of the clock (it starts at 0)
MaxAmount == 2       \* largest amount a caller asks for, in naira
InitBalance == 2     \* largest balance a wallet starts with

Procs == {"p1", "p2"}
Earlier(q, p) == q = "p1" /\ p = "p2"
Users == {"u1", "u2"}

----------------------------------------------------------------------------
(* Values *)

NoUser == "none"
NoRef == <<"none", 0, "none">>
NoKey == <<>>
NoNumber == <<-8, 0>>
UnknownNumber == <<-9, 0>>     \* a well-formed wallet number no wallet has
UnknownRef == <<"dep", -9, "none">>   \* a reference no transaction has
NoWallet == [userId |-> NoUser, walletNumber |-> NoNumber, balance |-> 0]

\* the amounts a caller may ask for: negative, zero, positive
Amounts == -1..MaxAmount

\* the test that turns away negative amounts only
InvalidAmountOnlyNegative(amount) == amount < 0

\* amount <= 0
InvalidAmount(amount) == amount <= 0

\* the validation that lets zero through
IsPositiveOrZero(amount) == amount >= 0

\* @IsPositive() on DepositDto.amount, applied by the global ValidationPipe
\* before the controller's handler runs
IsPositive(amount) == amount > 0

\* `dep_${Date.now()}_${userId}`
DepositReference(t, u) == <<"dep", t, u>>

\* `txf_${timestamp}_${userId}`
TransferReference(t, u) == <<"txf", t, u>>

\* timestamp.slice(-10) + two random digits; one random value is kept
generateWalletNumber(t, r) == <<t, r>>

\* amount * 100
amountInKobo(naira) == naira * 100

\* the amount taken over without conversion
amountUnconverted(kobo) == kobo

\* amount / 100
amountInNaira(kobo) == kobo \div 100

\* `idf_` + sha256(`${fromUserId}_${toWalletNumber}_${amount}`).substring(0, 16):
\* a function of the three inputs, taken as collision free
idempotencyKey(fromUserId, toWalletNumber, amount) ==
    <<fromUserId, toWalletNumber, amount>>

----------------------------------------------------------------------------
(* Tables *)

\* wallet.findUnique({ where: { userId } })
WalletOf(u) ==
    IF \E w \in wallets : w.userId = u
    THEN CHOOSE w \in wallets : w.userId = u
    ELSE NoWallet

\* the lookup that falls back on some wallet when the number is unknown
WalletByNumberOrAny(n) ==
    IF \E w \in wallets : w.walletNumber = n
    THEN CHOOSE w \in wallets : w.walletNumber = n
    ELSE CHOOSE w \in wallets \cup {NoWallet} : wallets # {} => w \in wallets

\* wallet.findUnique({ where: { walletNumber } })
WalletByNumber(n) ==
    IF \E w \in wallets : w.walletNumber = n
    THEN CHOOSE w \in wallets : w.walletNumber = n
    ELSE NoWallet

Balance(u) == WalletOf(u).balance

\* the update that loses its increments
AddBalanceDecrementOnly(ws, u, delta) ==
    {IF w.userId = u /\ delta < 0 THEN [w EXCEPT !.balance = @ + delta] ELSE w : w \in ws}

\* the update that writes the amount over the balance
AddBalanceOverwrites(ws, u, delta) ==
    {IF w.userId = u THEN [w EXCEPT !.balance = delta] ELSE w : w \in ws}

\* balance: { increment: amount } / { decrement: amount } on the row of user u
AddBalance(ws, u, delta) ==
    {IF w.userId = u THEN [w EXCEPT !.balance = @ + delta] ELSE w : w \in ws}

\* the insert checked against the index on walletNumber alone
WalletInsertAllowedNumberOnly(u, n) == \A w \in wallets : w.walletNumber # n

\* the insert checked against the index on userId alone
WalletInsertAllowedUserOnly(u, n) == \A w \in wallets : w.userId # u

\* unique indexes Wallet_userId_key and Wallet_walletNumber_key
WalletInsertAllowed(u, n) ==
    /\ \A w \in wallets : w.userId # u
    /\ \A w \in wallets : w.walletNumber # n

\* the column the error of a refused insert of (u, n) names as its target: the
\* indexes are checked in the order of their creation, userId first
WalletConflict(u, n) ==
    IF \E w \in wallets : w.userId = u THEN "userId" ELSE "walletNumber"

\* the unique constraint error on column c
UniqueViolation(c) == <<"P2002", 0, c>>

\* transaction.findUnique({ where: { reference } })
HasTxn(r) == \E t \in txns : t.reference = r
TxnOf(r) == CHOOSE t \in txns : t.reference = r

\* a table without the unique index
TxnInsertAlways(refs) == TRUE

\* unique index Transaction_reference_key
TxnInsertAllowed(refs) == \A t \in txns : t.reference \notin refs

\* response.data.data.access_code of the charge started for reference r
AccessCode(r) == <<"access_code", r>>
NoAccessCode == <<>>

DepositRow(r, u, amount, status) ==
    [reference |-> r, userId |-> u, amount |-> amount, type |-> "deposit",
     status |-> status, key |-> NoKey, paystackReference |-> AccessCode(r),
     completed |-> status # "pending", createdAt |-> r[2]]

TransferRow(r, u, amount, type, key) ==
    [reference |-> r, userId |-> u, amount |-> amount, type |-> type,
     status |-> "success", key |-> key, paystackReference |-> NoAccessCode,
     completed |-> FALSE, createdAt |-> r[2]]

\* transaction.update({ where: { reference }, data: { status, completedAt } })
SetStatus(ts, r, status) ==
    {IF t.reference = r
     THEN [t EXCEPT !.status = status, !.completed = TRUE]
     ELSE t : t \in ts}

\* the transaction of reference r has left pending
Settled(r) == HasTxn(r) /\ TxnOf(r).status \in {"success", "failed"}

CreditCount(r) == IF r \in DOMAIN credits THEN credits[r] ELSE 0

NoteCredit(r) == (r :> (CreditCount(r) + 1)) @@ credits

----------------------------------------------------------------------------
(* Processes *)

IdleLocal ==
    [op |-> "none", userId |-> NoUser, toWalletNumber |-> NoNumber,
     amount |-> 0, recipient |-> NoUser, fresh |-> 0, dup |-> FALSE,
     reference |-> NoRef, event |-> "none", status |-> "none", kobo |-> 0,
     signed |-> FALSE, success |-> FALSE, seen |-> "none",
     attempts |-> 0, walletNumber |-> NoNumber, handle |-> NoAccessCode,
     history |-> <<>>]

NoResult == [op |-> "none", outcome |-> "none", reference |-> NoRef]

Result(op, outcome, r) == [op |-> op, outcome |-> outcome, reference |-> r]

\* the call of p ends: it returns or throws `outcome`
Return(p, outcome, r) ==
    /\ pc' = [pc EXCEPT ![p] = "done"]
    /\ res' = [res EXCEPT ![p] = Result(local[p].op, outcome, r)]
    /\ local' = [local EXCEPT ![p] = IdleLocal]

Goto(p, label, l) ==
    /\ pc' = [pc EXCEPT ![p] = label]
    /\ local' = [local EXCEPT ![p] = l]
    /\ UNCHANGED res

\* a request arrives; every process serves one request, and the processes are
\* numbered in the order in which their requests arrive
Accept(p) ==
    /\ pc[p] = "idle"
    /\ \A q \in Procs : Earlier(q, p) => pc[q] # "idle"

\* a call that ends before its first await
Answer(p, op, outcome) ==
    /\ pc' = [pc EXCEPT ![p] = "done"]
    /\ res' = [res EXCEPT ![p] = Result(op, outcome, NoRef)]
    /\ UNCHANGED local

\* Date.now(): never less than the value it returned before
Clock == now..MaxTime

\* Row locks.  A wallet row is locked by the transfer that has updated it and
\* has not yet committed or rolled back.
\* an update that takes no row lock
HoldsNoWalletLock(q, u) == FALSE

HoldsWalletLock(q, u) ==
    \/ pc[q] \in {"t_credit", "t_insert"} /\ local[q].userId = u
    \/ pc[q] = "t_insert" /\ local[q].recipient = u

WalletLockedByOther(p, u) == \E q \in Procs \ {p} : HoldsWalletLock(q, u)

\* A transaction row is locked by the settlement that has updated it inside
\* its $transaction and has not yet committed or rolled back.
HoldsTxnLock(q, r) ==
    pc[q] \in {"hw_credit", "vf_credit"} /\ local[q].reference = r

TxnLockedByOther(p, r) == \E q \in Procs \ {p} : HoldsTxnLock(q, r)

----------------------------------------------------------------------------
(* WalletService.transfer *)

\* the check that looks for the wallet only
InsufficientOnlyMissing(w, amount) == w = NoWallet

\* !senderWallet || senderWallet.balance < amount
Insufficient(w, amount) == w = NoWallet \/ w.balance < amount

\* the update without the balance in its where clause
DebitMatchesAnyBalance(w, fresh) == w # NoWallet

\* where: { userId: fromUserId, balance: freshSenderWallet.balance }
DebitMatches(w, fresh) == w # NoWallet /\ w.balance = fresh

\* findFirst({ where: { metadata.idempotency_key = key, status: 'success' } })
ExistingTransfers(key) == {t \in txns : t.key = key /\ t.status = "success"}

\* the two rows of createMany
\* references that also name the side of the transfer
TransferRowsBySide(t, fromUserId, toUserId, amount, key) ==
    << TransferRow(<<"txf", t, fromUserId, "out">>, fromUserId, 0 - amount,
                   "transfer_out", key),
       TransferRow(<<"txf", t, toUserId, "in">>, toUserId, amount,
                   "transfer_in", key) >>

TransferRows(t, fromUserId, toUserId, amount, key) ==
    << TransferRow(TransferReference(t, fromUserId), fromUserId, 0 - amount,
                   "transfer_out", key),
       TransferRow(TransferReference(t, toUserId), toUserId, amount,
                   "transfer_in", key) >>

\* transfer(fromUserId, toWalletNumber, amount) up to its first await
CallTransfer(p) ==
    \E u \in Users, n \in {w.walletNumber : w \in wallets} \cup {UnknownNumber},
       a \in Amounts :
        /\ Accept(p)
        /\ LET l == [IdleLocal EXCEPT !.op = "transfer", !.userId = u,
                        !.toWalletNumber = n, !.amount = a,
                        !.dup = \E t \in ExistingTransfers(idempotencyKey(u, n, a)) :
                                    t.type = "transfer_out"]
           IN  IF InvalidAmount(a)
               THEN Answer(p, "transfer", "ValidationError")
               ELSE Goto(p, "t_recipient", l)
        /\ UNCHANGED <<wallets, txns, now, credits>>

\* const recipientWallet = await this.wallet.findUnique(...)
TransferFindRecipient(p) ==
    /\ pc[p] = "t_recipient"
    /\ LET w == WalletByNumber(local[p].toWalletNumber)
       IN  IF w = NoWallet
           THEN Return(p, "NotFound", NoRef)
           ELSE Goto(p, "t_sender", [local[p] EXCEPT !.recipient = w.userId])
    /\ UNCHANGED <<wallets, txns, now, credits>>

\* const senderWallet = await this.wallet.findUnique(...); the balance check
TransferFindSender(p) ==
    /\ pc[p] = "t_sender"
    /\ IF Insufficient(WalletOf(local[p].userId), local[p].amount)
       THEN Return(p, "InsufficientBalance", NoRef)
       ELSE Goto(p, "t_idem", local[p])
    /\ UNCHANGED <<wallets, txns, now, credits>>

\* $transaction begins; const existingTransfer = await tx.transaction.findFirst(...)
\* findFirst has no orderBy: any matching row may be the one returned
TransferCheckIdempotency(p) ==
    /\ pc[p] = "t_idem"
    /\ LET found == ExistingTransfers(idempotencyKey(local[p].userId,
                        local[p].toWalletNumber, local[p].amount))
       IN  IF found # {}
           THEN \E t \in found : Return(p, "duplicate", t.reference)
           ELSE Goto(p, "t_fresh", local[p])
    /\ UNCHANGED <<wallets, txns, now, credits>>

\* const freshSenderWallet = await tx.wallet.findUnique(...); the balance check
TransferReadFresh(p) ==
    /\ pc[p] = "t_fresh"
    /\ LET w == WalletOf(local[p].userId)
       IN  IF Insufficient(w, local[p].amount)
           THEN Return(p, "InsufficientBalance", NoRef)
           ELSE Goto(p, "t_debit", [local[p] EXCEPT !.fresh = w.balance])
    /\ UNCHANGED <<wallets, txns, now, credits>>

\* the debit made outside the $transaction: it is committed at once
TransferDebitCommitsAlone(p) ==
    /\ pc[p] = "t_debit"
    /\ IF DebitMatches(WalletOf(local[p].userId), local[p].fresh)
       THEN /\ wallets' = AddBalance(wallets, local[p].userId, 0 - local[p].amount)
            /\ Goto(p, "t_credit", local[p])
       ELSE /\ UNCHANGED wallets
            /\ Return(p, "aborted", NoRef)
    /\ UNCHANGED <<txns, now, credits>>

\* await tx.wallet.update({ where: { userId, balance: fresh }, decrement }):
\* waits for the row lock, then matches the committed row or throws
TransferDebit(p) ==
    /\ pc[p] = "t_debit"
    /\ ~WalletLockedByOther(p, local[p].userId)
    /\ IF DebitMatches(WalletOf(local[p].userId), local[p].fresh)
       THEN Goto(p, "t_credit", local[p])
       ELSE Return(p, "aborted", NoRef)
    /\ UNCHANGED <<wallets, txns, now, credits>>

\* await tx.wallet.update({ where: { walletNumber }, increment })
TransferCredit(p) ==
    /\ pc[p] = "t_credit"
    /\ ~WalletLockedByOther(p, local[p].recipient)
    /\ Goto(p, "t_insert", local[p])
    /\ UNCHANGED <<wallets, txns, now, credits>>

\* Date.now(); await tx.transaction.createMany(...); the $transaction commits,
\* or rolls back on a reference that is already taken (the result then keeps
\* the sender reference that was refused)
TransferInsert(p) ==
    /\ pc[p] = "t_insert"
    /\ \E timestamp \in Clock :
       LET l == local[p]
           rows == TransferRows(timestamp, l.userId, l.recipient, l.amount,
                       idempotencyKey(l.userId, l.toWalletNumber, l.amount))
       IN
       /\ IF rows[1].reference # rows[2].reference
              /\ TxnInsertAllowed({rows[1].reference, rows[2].reference})
           THEN /\ wallets' = AddBalance(AddBalance(wallets, l.userId, 0 - l.amount),
                                         l.recipient, l.amount)
                /\ txns' = txns \cup {rows[1], rows[2]}
                /\ Return(p, "success", rows[1].reference)
           ELSE /\ UNCHANGED <<wallets, txns>>
                /\ Return(p, "aborted", rows[1].reference)
       /\ now' = timestamp
    /\ UNCHANGED credits

TransferStep(p) ==
    \/ TransferFindRecipient(p)
    \/ TransferFindSender(p)
    \/ TransferCheckIdempotency(p)
    \/ TransferReadFresh(p)
    \/ TransferDebit(p)
    \/ TransferCredit(p)
    \/ TransferInsert(p)

----------------------------------------------------------------------------
(* WalletService.getOrCreateWallet, getBalance, initiateDeposit *)

\* a loop that allows one more turn
maxAttemptsOneMore == 5 + 1

\* const maxAttempts = 5
maxAttempts == 5

\* Math.floor(Math.random() * 100): the random digits the model draws
RandomDigits == {0}

\* the PaymentGateway accepts the charge or the request fails
GatewayInitOutcomes == {"ok", "error"}

\* getBalance(userId) up to its first await
CallGetBalance(p) ==
    \E u \in Users :
        /\ Accept(p)
        /\ Goto(p, "gw_find", [IdleLocal EXCEPT !.op = "getBalance", !.userId = u])
        /\ UNCHANGED <<wallets, txns, now, credits>>

\* an initiation that does not call getOrCreateWallet first
CallInitiateDepositWithoutWallet(p) ==
    \E u \in Users, a \in Amounts, t \in Clock :
        /\ Accept(p)
        /\ IF ~(a > 0)
           THEN Answer(p, "initiateDeposit", "ValidationError") /\ UNCHANGED now
           ELSE /\ Goto(p, "id_gateway",
                        [IdleLocal EXCEPT !.op = "initiateDeposit", !.userId = u,
                                          !.amount = a,
                                          !.reference = DepositReference(t, u),
                                          !.kobo = a * 100])
                /\ now' = t
        /\ UNCHANGED <<wallets, txns, credits>>

\* WalletController.deposit: the body is validated, then
\* initiateDeposit(userId, amount, email) runs up to its first await
CallInitiateDeposit(p) ==
    \E u \in Users, a \in Amounts :
        /\ Accept(p)
        /\ IF ~IsPositive(a)
           THEN Answer(p, "initiateDeposit", "ValidationError")
           ELSE Goto(p, "gw_find", [IdleLocal EXCEPT !.op = "initiateDeposit",
                                       !.userId = u, !.amount = a])
        /\ UNCHANGED <<wallets, txns, now, credits>>

\* getOrCreateWallet returns to its caller, which runs on to its next await:
\* getBalance returns; initiateDeposit takes its reference and posts the charge
WalletReady(p) ==
    IF local[p].op = "initiateDeposit"
    THEN \E t \in Clock :
            /\ Goto(p, "id_gateway",
                    [local[p] EXCEPT !.reference = DepositReference(t, local[p].userId),
                                     !.kobo = amountInKobo(local[p].amount),
                                     !.attempts = 0, !.walletNumber = NoNumber])
            /\ now' = t
    ELSE /\ Return(p, "ok", NoRef)
         /\ UNCHANGED now

\* let wallet = await this.wallet.findUnique({ where: { userId } })
GetOrCreateFind(p) ==
    /\ pc[p] = "gw_find"
    /\ IF WalletOf(local[p].userId) # NoWallet
       THEN WalletReady(p)
       ELSE \E t \in Clock, r \in RandomDigits :
                /\ Goto(p, "gw_check",
                        [local[p] EXCEPT !.walletNumber = generateWalletNumber(t, r)])
                /\ now' = t
    /\ UNCHANGED <<wallets, txns, credits>>

\* const exists = await this.wallet.findUnique({ where: { walletNumber } }),
\* one turn of the retry loop
GetOrCreateCheck(p) ==
    /\ pc[p] = "gw_check"
    /\ LET l == local[p]
       IN  IF WalletByNumber(l.walletNumber) = NoWallet
           THEN Goto(p, "gw_create", l) /\ UNCHANGED now
           ELSE IF l.attempts + 1 < maxAttempts
                THEN \E t \in Clock, r \in RandomDigits :
                        /\ Goto(p, "gw_check",
                                [l EXCEPT !.attempts = @ + 1,
                                          !.walletNumber = generateWalletNumber(t, r)])
                        /\ now' = t
                ELSE Return(p, "AllocationFailed", NoRef) /\ UNCHANGED now
    /\ UNCHANGED <<wallets, txns, credits>>

\* an upsert in place of the create: it writes the new row over the one found
GetOrCreateCreateUpserts(p) ==
    /\ pc[p] = "gw_create"
    /\ LET l == local[p]
       IN  /\ wallets' = {w \in wallets : w.userId # l.userId} \cup
                  {[userId |-> l.userId, walletNumber |-> l.walletNumber,
                    balance |-> 0]}
           /\ WalletReady(p)
    /\ UNCHANGED <<txns, credits>>

\* wallet = await this.wallet.create({ data: { userId, walletNumber, balance: 0 } })
GetOrCreateCreate(p) ==
    /\ pc[p] = "gw_create"
    /\ LET l == local[p]
       IN  IF WalletInsertAllowed(l.userId, l.walletNumber)
           THEN /\ wallets' = wallets \cup
                       {[userId |-> l.userId, walletNumber |-> l.walletNumber,
                         balance |-> 0]}
                /\ WalletReady(p)
           ELSE /\ UNCHANGED <<wallets, now>>
                /\ Return(p, "aborted",
                          UniqueViolation(WalletConflict(l.userId, l.walletNumber)))
    /\ UNCHANGED <<txns, credits>>

\* the call that goes on whatever the gateway answered
GatewayAcceptedAlways(g) == TRUE

\* axios.post resolves; a rejection or a timeout lands in the catch block
GatewayAccepted(g) == g = "ok"

\* response.data.data.access_code
GatewayHandle(g, r) == IF g = "ok" THEN AccessCode(r) ELSE NoAccessCode

\* const response = await axios.post(`.../transaction/initialize`, ...)
InitiateDepositGateway(p) ==
    /\ pc[p] = "id_gateway"
    /\ \E g \in GatewayInitOutcomes :
           IF GatewayAccepted(g)
           THEN Goto(p, "id_create",
                     [local[p] EXCEPT !.handle = GatewayHandle(g, local[p].reference)])
           ELSE Return(p, "PaymentInitiationFailed", NoRef)
    /\ UNCHANGED <<wallets, txns, now, credits>>

\* await this.transaction.create({ data: { reference, ..., status: 'pending' } })
\* a create that also adds the amount to the balance
InitiateDepositCreateCredits(p) ==
    /\ pc[p] = "id_create"
    /\ LET l == local[p]
       IN  IF TxnInsertAllowed({l.reference})
           THEN /\ txns' = txns \cup
                       {[DepositRow(l.reference, l.userId, l.amount, "pending")
                            EXCEPT !.paystackReference = l.handle,
                                   !.createdAt = now]}
                /\ wallets' = AddBalance(wallets, l.userId, l.amount)
                /\ Return(p, "initiated", l.reference)
           ELSE /\ UNCHANGED <<txns, wallets>>
                /\ Return(p, "PaymentInitiationFailed", NoRef)
    /\ UNCHANGED <<now, credits>>

InitiateDepositCreate(p) ==
    /\ pc[p] = "id_create"
    /\ LET l == local[p]
       IN  IF TxnInsertAllowed({l.reference})
           THEN /\ txns' = txns \cup
                       {[DepositRow(l.reference, l.userId, l.amount, "pending")
                            EXCEPT !.paystackReference = l.handle,
                                   !.createdAt = now]}
                /\ Return(p, "initiated", l.reference)
           ELSE /\ UNCHANGED txns
                /\ Return(p, "PaymentInitiationFailed", NoRef)
    /\ UNCHANGED <<wallets, now, credits>>

WalletStep(p) ==
    \/ GetOrCreateFind(p)
    \/ GetOrCreateCheck(p)
    \/ GetOrCreateCreate(p)
    \/ InitiateDepositGateway(p)
    \/ InitiateDepositCreate(p)

----------------------------------------------------------------------------
(* WalletController.paystackWebhook and WalletService.handleWebhook *)

Events == {"charge.success", "charge.failed", "transfer.success"}
PayloadStatuses == {"success", "failed"}
GatewayKobo == {amountInKobo(a) : a \in 1..MaxAmount}

\* the test that looks at the payload status only
isPaymentSuccessfulByStatus(event, status) == status = "success"

\* event === 'charge.success' && status === 'success'
isPaymentSuccessful(event, status) == event = "charge.success" /\ status = "success"

\* the references a request can name
Mentionable == {t.reference : t \in txns} \cup {UnknownRef}

Secret == "paystackSecretKey"
SecretKeys == {Secret, "otherKey"}

\* the request bodies: JSON text of an event, or the empty string.  The amount
\* varies where it is used, in the payloads of a successful charge.
Payloads ==
    {b \in [event : Events, reference : Mentionable, amount : GatewayKobo,
            status : PayloadStatuses] :
        isPaymentSuccessful(b.event, b.status) \/ b.amount = amountInKobo(1)}
EmptyBody == [event |-> "", reference |-> NoRef, amount |-> 0, status |-> ""]

\* crypto.createHmac('sha512', key).update(payload).digest('hex'):
\* a function of key and payload, taken as collision free
Hmac(key, payload) == <<key, payload>>
NoSignature == <<>>

\* req.rawBody?.toString('utf8') || ''
RawBodyText(hasRawBody, body) == IF hasRawBody THEN body ELSE EmptyBody

\* the check that looks at the key of the signature and not at what was signed
verifyKeyOnly(payload, signature) == signature[1] = Secret

\* verifyPaystackSignature(payload, signature)
verifyPaystackSignature(payload, signature) == Hmac(Secret, payload) = signature

\* JSON.parse(rawBody) throws on the empty string
Parses(rawBody) == rawBody # EmptyBody

\* the test that lets every event through
IsAnyEvent(event) == TRUE

\* event.startsWith('charge.')
IsChargeEvent(event) == event \in {"charge.success", "charge.failed"}

\* the check that knows failed only
IsTerminalOnlyFailed(status) == status = "failed"

\* transaction.status === 'success' || transaction.status === 'failed'
IsTerminal(status) == status \in {"success", "failed"}

\* the signatures a sender can attach to body b: none, the gateway's, the
\* gateway's over another body, one made with another key
SignaturesFor(b) ==
    {NoSignature, Hmac(Secret, b), Hmac(Secret, EmptyBody), Hmac("otherKey", b),
     Hmac(Secret, [b EXCEPT !.amount = amountInKobo(MaxAmount + 1)])}

\* the bodies of the deliveries that try a signature other than the gateway's:
\* the empty body and, per reference, the payload that asks for a credit
ForgedBodies ==
    {b \in Payloads : isPaymentSuccessful(b.event, b.status)
                      /\ b.amount = amountInKobo(1)} \cup {EmptyBody}

\* the requests: <<whether req.rawBody is set, body, signature header>>
Deliveries ==
    {<<TRUE, b, Hmac(Secret, b)>> : b \in Payloads \cup {EmptyBody}}
    \cup UNION {{<<h, b, sig>> : h \in BOOLEAN, sig \in SignaturesFor(b)} :
                   b \in ForgedBodies}

\* paystackWebhook(req, signature) up to its call of handleWebhook
PaystackWebhook(p) ==
    /\ Accept(p)
    /\ \E d \in Deliveries :
        /\ LET hasRawBody == d[1]
               b == d[2]
               sig == d[3]
               rawBody == RawBodyText(hasRawBody, b)
               l == [IdleLocal EXCEPT !.op = "handleWebhook",
                        !.reference = rawBody.reference, !.event = rawBody.event,
                        !.status = rawBody.status, !.kobo = rawBody.amount,
                        !.signed = (sig = Hmac(Secret, b)),
                        !.dup = Settled(rawBody.reference)]
           IN  IF sig = NoSignature \/ ~verifyPaystackSignature(rawBody, sig)
               THEN Answer(p, "paystackWebhook", "SignatureInvalid")
               ELSE IF ~Parses(rawBody)
                    THEN Answer(p, "paystackWebhook", "aborted")
                    ELSE Goto(p, "hw_find", l)
        /\ UNCHANGED <<wallets, txns, now, credits>>

\* the lookup that passes over a reference it does not know
HandleWebhookFindLenient(p) ==
    /\ pc[p] = "hw_find"
    /\ LET l == local[p]
       IN  IF ~IsChargeEvent(l.event) \/ ~HasTxn(l.reference)
           THEN Return(p, "ignored", NoRef)
           ELSE IF IsTerminal(TxnOf(l.reference).status)
                THEN Return(p, "AlreadyProcessed", l.reference)
                ELSE Goto(p, "hw_update",
                          [l EXCEPT !.success = isPaymentSuccessful(l.event, l.status),
                                    !.userId = TxnOf(l.reference).userId])
    /\ UNCHANGED <<wallets, txns, now, credits>>

\* handleWebhook(event, data): the event test, which reads the arguments only,
\* and const transaction = await this.transaction.findUnique({ where: { reference } })
HandleWebhookFind(p) ==
    /\ pc[p] = "hw_find"
    /\ LET l == local[p]
       IN  IF ~IsChargeEvent(l.event)
           THEN Return(p, "ignored", NoRef)
           ELSE IF ~HasTxn(l.reference)
           THEN Return(p, "NotFound", NoRef)
           ELSE IF IsTerminal(TxnOf(l.reference).status)
                THEN Return(p, "AlreadyProcessed", l.reference)
                ELSE Goto(p, "hw_update",
                          [l EXCEPT !.success = isPaymentSuccessful(l.event, l.status),
                                    !.userId = TxnOf(l.reference).userId])
    /\ UNCHANGED <<wallets, txns, now, credits>>

\* the status update made outside the $transaction: it is committed at once
HandleWebhookUpdateCommitsAlone(p) ==
    /\ pc[p] = "hw_update"
    /\ txns' = SetStatus(txns, local[p].reference,
                         IF local[p].success THEN "success" ELSE "failed")
    /\ IF local[p].success
       THEN Goto(p, "hw_credit", local[p])
       ELSE Return(p, "processed", local[p].reference)
    /\ UNCHANGED <<wallets, now, credits>>

\* $transaction begins; await tx.transaction.update({ status, completedAt }).
\* A failed payment has nothing more to write and commits.
HandleWebhookUpdate(p) ==
    /\ pc[p] = "hw_update"
    /\ ~TxnLockedByOther(p, local[p].reference)
    /\ IF local[p].success
       THEN /\ Goto(p, "hw_credit", local[p])
            /\ UNCHANGED txns
       ELSE /\ txns' = SetStatus(txns, local[p].reference, "failed")
            /\ Return(p, "processed", local[p].reference)
    /\ UNCHANGED <<wallets, now, credits>>

\* await tx.wallet.upsert({ where: { userId }, create, update: { increment } });
\* the $transaction commits.  The create branch has no walletNumber, which the
\* table requires, and rolls the $transaction back.
HandleWebhookCredit(p) ==
    /\ pc[p] = "hw_credit"
    /\ ~WalletLockedByOther(p, local[p].userId)
    /\ LET l == local[p]
       IN  IF WalletOf(l.userId) # NoWallet
           THEN /\ wallets' = AddBalance(wallets, l.userId, amountInNaira(l.kobo))
                /\ txns' = SetStatus(txns, l.reference, "success")
                /\ credits' = NoteCredit(l.reference)
                /\ Return(p, "processed", l.reference)
           ELSE /\ UNCHANGED <<wallets, txns, credits>>
                /\ Return(p, "aborted", NoRef)
    /\ UNCHANGED now

WebhookStep(p) ==
    \/ HandleWebhookFind(p)
    \/ HandleWebhookUpdate(p)
    \/ HandleWebhookCredit(p)

----------------------------------------------------------------------------
(* WalletService.verifyDepositWithPaystack *)

\* what GET /transaction/verify/:reference answers: a status, a 404, another error
GatewayVerifyOutcomes == {"success", "abandoned", "404", "error"}

\* verifyDepositWithPaystack(reference) up to its first await
CallVerifyDeposit(p) ==
    \E r \in Mentionable :
        /\ Accept(p)
        /\ Goto(p, "vf_find",
                [IdleLocal EXCEPT !.op = "verifyDepositWithPaystack", !.reference = r,
                    !.dup = Settled(r)])
        /\ UNCHANGED <<wallets, txns, now, credits>>

\* const transaction = await this.transaction.findUnique({ where: { reference } })
VerifyFind(p) ==
    /\ pc[p] = "vf_find"
    /\ LET l == local[p]
       IN  IF ~HasTxn(l.reference)
           THEN Return(p, "NotFound", NoRef)
           ELSE Goto(p, "vf_gateway",
                     [l EXCEPT !.seen = TxnOf(l.reference).status,
                               !.userId = TxnOf(l.reference).userId])
    /\ UNCHANGED <<wallets, txns, now, credits>>

\* the catch block that takes every gateway error for a 404
VerifyBranchEveryErrorAbandons(g, seen) ==
    IF g \in {"error", "404"} THEN "vf_abandon"
    ELSE IF seen = "success" THEN "AlreadyProcessed"
    ELSE IF g = "success" THEN "vf_update"
    ELSE "vf_fail"

\* where the call goes on the gateway's answer g for a transaction found with
\* status seen: the catch block (404, other errors), the already-successful
\* return, the settlement, the update to failed
VerifyBranch(g, seen) ==
    IF g = "error" THEN "pending"
    ELSE IF g = "404" THEN "vf_abandon"
    ELSE IF seen = "success" THEN "AlreadyProcessed"
    ELSE IF g = "success" THEN "vf_update"
    ELSE "vf_fail"

\* const response = await axios.get(`.../transaction/verify/${reference}`) and
\* the branch taken on its answer
VerifyGateway(p) ==
    /\ pc[p] = "vf_gateway"
    /\ \E g \in GatewayVerifyOutcomes, k \in GatewayKobo :
        LET l == local[p]
            branch == VerifyBranch(g, l.seen)
        IN  IF branch \in {"pending", "AlreadyProcessed"}
            THEN Return(p, branch, l.reference)
            ELSE Goto(p, branch, IF branch = "vf_update" THEN [l EXCEPT !.kobo = k]
                                                         ELSE l)
    /\ UNCHANGED <<wallets, txns, now, credits>>

\* $transaction begins; await tx.transaction.update({ status: 'success', ... })
VerifyUpdate(p) ==
    /\ pc[p] = "vf_update"
    /\ ~TxnLockedByOther(p, local[p].reference)
    /\ Goto(p, "vf_credit", local[p])
    /\ UNCHANGED <<wallets, txns, now, credits>>

\* await tx.wallet.upsert(...); the $transaction commits, or rolls back into the
\* catch block, which answers "try again"
VerifyCredit(p) ==
    /\ pc[p] = "vf_credit"
    /\ ~WalletLockedByOther(p, local[p].userId)
    /\ LET l == local[p]
       IN  IF WalletOf(l.userId) # NoWallet
           THEN /\ wallets' = AddBalance(wallets, l.userId, amountInNaira(l.kobo))
                /\ txns' = SetStatus(txns, l.reference, "success")
                /\ credits' = NoteCredit(l.reference)
                /\ Return(p, "verified", l.reference)
           ELSE /\ UNCHANGED <<wallets, txns, credits>>
                /\ Return(p, "pending", l.reference)
    /\ UNCHANGED now

\* await this.transaction.update({ status: 'failed', ... }) when the gateway
\* reports a status other than success
VerifyFail(p) ==
    /\ pc[p] = "vf_fail"
    /\ ~TxnLockedByOther(p, local[p].reference)
    /\ txns' = SetStatus(txns, local[p].reference, "failed")
    /\ Return(p, "failed", local[p].reference)
    /\ UNCHANGED <<wallets, now, credits>>

\* await this.transaction.update({ status: 'failed', ... }) in the catch block,
\* when the gateway answered 404
VerifyAbandon(p) ==
    /\ pc[p] = "vf_abandon"
    /\ ~TxnLockedByOther(p, local[p].reference)
    /\ txns' = SetStatus(txns, local[p].reference, "failed")
    /\ Return(p, "abandoned", local[p].reference)
    /\ UNCHANGED <<wallets, now, credits>>

VerifyStep(p) ==
    \/ VerifyFind(p)
    \/ VerifyGateway(p)
    \/ VerifyUpdate(p)
    \/ VerifyCredit(p)
    \/ VerifyFail(p)
    \/ VerifyAbandon(p)

----------------------------------------------------------------------------
(* WalletService.verifyDepositStatus and WalletService.getTransactionHistory *)

\* verifyDepositStatus(reference) up to its first await
CallVerifyDepositStatus(p) ==
    \E r \in Mentionable :
        /\ Accept(p)
        /\ Goto(p, "vs_find",
                [IdleLocal EXCEPT !.op = "verifyDepositStatus", !.reference = r])
        /\ UNCHANGED <<wallets, txns, now, credits>>

\* await this.transaction.findUnique({ where: { reference } }); the status found
\* is returned, or NotFoundException is thrown
VerifyDepositStatusFind(p) ==
    /\ pc[p] = "vs_find"
    /\ IF ~HasTxn(local[p].reference)
       THEN Return(p, "NotFound", NoRef)
       ELSE Return(p, TxnOf(local[p].reference).status, local[p].reference)
    /\ UNCHANGED <<wallets, txns, now, credits>>

\* getTransactionHistory(userId) up to its first await
CallGetTransactionHistory(p) ==
    \E u \in Users :
        /\ Accept(p)
        /\ Goto(p, "th_find",
                [IdleLocal EXCEPT !.op = "getTransactionHistory", !.userId = u])
        /\ UNCHANGED <<wallets, txns, now, credits>>

\* select: { type, amount, status, createdAt, reference }
Selected(t) ==
    [type |-> t.type, amount |-> t.amount, status |-> t.status,
     createdAt |-> t.createdAt, reference |-> t.reference]

\* an ordering by createdAt with the oldest row first
OrderedAscending(s) ==
    \A i, j \in 1..Len(s) : i < j => s[i].createdAt <= s[j].createdAt

\* orderBy: { createdAt: 'desc' }; rows of equal createdAt come in any order
OrderedDescending(s) ==
    \A i, j \in 1..Len(s) : i < j => s[i].createdAt >= s[j].createdAt

\* findMany({ where: { userId }, orderBy, select }): the lists it may return
FindManyByUser(u) ==
    LET rows == {t \in txns : t.userId = u}
    IN  {s \in [1..Cardinality(rows) -> {Selected(t) : t \in rows}] :
            /\ \A i, j \in 1..Cardinality(rows) : i # j => s[i] # s[j]
            /\ OrderedDescending(s)}

\* const transactions = await this.transaction.findMany(...); return transactions
\* (the list returned stays in local[p].history)
GetTransactionHistoryFind(p) ==
    /\ pc[p] = "th_find"
    /\ \E s \in FindManyByUser(local[p].userId) :
          /\ pc' = [pc EXCEPT ![p] = "done"]
          /\ res' = [res EXCEPT ![p] = Result(local[p].op, "ok", NoRef)]
          /\ local' = [local EXCEPT ![p].history = s]
    /\ UNCHANGED <<wallets, txns, now, credits>>

ReadStep(p) ==
    \/ VerifyDepositStatusFind(p)
    \/ GetTransactionHistoryFind(p)

----------------------------------------------------------------------------
(* An open $transaction fails: its callback rejects, it times out or the       *)
(* connection drops.  Nothing it wrote is committed.                           *)

InTransfer == {"t_idem", "t_fresh", "t_debit", "t_credit", "t_insert"}
InWebhookSettle == {"hw_update", "hw_credit"}
InVerifySettle == {"vf_update", "vf_credit"}

TransactionFails(p) ==
    /\ pc[p] \in InTransfer \cup InWebhookSettle \cup InVerifySettle
    /\ IF pc[p] \in InVerifySettle
       THEN Return(p, "pending", local[p].reference)
       ELSE Return(p, "aborted", NoRef)
    /\ UNCHANGED <<wallets, txns, now, credits>>

----------------------------------------------------------------------------
(* Specification *)

InitWallet(u, b) ==
    [userId |-> u,
     walletNumber |-> generateWalletNumber(IF u = "u1" THEN -2 ELSE -1, 0),
     balance |-> b]

\* A wallet that starts with a balance got it from a settled deposit; the first
\* user may also have a deposit under way.
InitTables(b, pending) ==
    /\ wallets = {InitWallet(u, b[u]) : u \in {v \in Users : b[v] >= 0}}
    /\ txns = {DepositRow(DepositReference(-2, u), u, b[u], "success") :
                  u \in {v \in Users : b[v] > 0}}
              \cup {DepositRow(DepositReference(-1, "u1"), "u1", a, "pending") :
                       a \in pending}
    /\ credits = [r \in {DepositReference(-2, u) : u \in {v \in Users : b[v] > 0}}
                     |-> 1]

Init ==
    /\ \E b \in [Users -> -1..InitBalance], pending \in {{}, {1}} :
            /\ b["u1"] >= 0
            /\ b["u2"] <= 0
            /\ InitTables(b, pending)
    /\ now = 0
    /\ pc = [p \in Procs |-> "idle"]
    /\ local = [p \in Procs |-> IdleLocal]
    /\ res = [p \in Procs |-> NoResult]

Call(p) ==
    \/ CallTransfer(p)
    \/ CallGetBalance(p)
    \/ CallInitiateDeposit(p)
    \/ PaystackWebhook(p)
    \/ CallVerifyDeposit(p)

Next ==
    \/ \E p \in Procs : Call(p)
    \/ \E p \in Procs : TransferStep(p)
    \/ \E p \in Procs : WalletStep(p)
    \/ \E p \in Procs : WebhookStep(p)
    \/ \E p \in Procs : VerifyStep(p)
    \/ \E p \in Procs : TransactionFails(p)

Spec == Init /\ [][Next]_vars

\* Two transfer requests have arrived together.  Both debit the first user in
\* favour of the second; each amount is within the balance, their sum is not.
InitRace ==
    /\ \E B \in 1..InitBalance, a \in [Procs -> 1..MaxAmount] :
            /\ \A p \in Procs : a[p] <= B
            /\ a["p1"] + a["p2"] > B
            /\ InitTables([u \in Users |-> IF u = "u1" THEN B ELSE 0], {})
            /\ local = [p \in Procs |->
                           [IdleLocal EXCEPT !.op = "transfer", !.userId = "u1",
                               !.toWalletNumber = InitWallet("u2", 0).walletNumber,
                               !.amount = a[p]]]
    /\ now = 0
    /\ pc = [p \in Procs |-> "t_recipient"]
    /\ res = [p \in Procs |-> NoResult]

NextRace == \E p \in Procs : TransferStep(p)

SpecRace == InitRace /\ [][NextRace]_vars

----------------------------------------------------------------------------
(* Properties *)

\* p takes a step
Steps(p) == pc'[p] # pc[p]

\* the call of p ends in this step
Ends(p) == pc[p] # "done" /\ pc'[p] = "done"

\* C1: in every reachable state every wallet has a balance of at least zero.
C1_BalanceNeverNegative == \A w \in wallets : w.balance >= 0

\* Two transfers raced for the same balance: one committed and emptied the
\* wallet, the other was turned away.
C1_Witness ==
    \E p, q \in Procs :
        /\ res[p].op = "transfer" /\ res[p].outcome = "success"
        /\ res[q].op = "transfer" /\ res[q].outcome \in {"aborted", "InsufficientBalance"}
        /\ Balance(res[p].reference[3]) = 0

\* C2: every deposit is credited to its wallet at most once, whatever the
\* interleaving of the webhook deliveries and verification polls that name it.
C2_CreditedAtMostOnce == \A r \in DOMAIN credits : credits[r] <= 1

\* C3: the status of a transaction only moves from pending to success or from
\* pending to failed; a status of success or failed never changes again.
C3_TerminalStatusIsFinal ==
    [][\A t \in txns : IsTerminal(t.status) =>
          \A t2 \in txns' : t2.reference = t.reference => t2.status = t.status]_vars


\* the idempotency key of the transfer p is running
KeyOf(p) == idempotencyKey(local[p].userId, local[p].toWalletNumber, local[p].amount)

\* the balance of user u in the Wallet table ws
BalanceIn(ws, u) == (CHOOSE w \in ws : w.userId = u).balance

\* the rows a step adds to the Transaction table
NewRows == txns' \ txns

\* C4: a transfer of amount A that commits, from wallet X to another wallet Y,
\* lowers the balance of X by exactly A, raises the balance of Y by exactly A and
\* adds exactly two rows, transfer_out of -A for the sender and transfer_in of +A
\* for the recipient, whose amounts sum to zero.
C4_TransferConserves ==
    [][\A p \in Procs :
          (pc[p] = "t_insert" /\ Ends(p) /\ res'[p].outcome = "success"
           /\ local[p].recipient # local[p].userId) =>
             LET a == local[p].amount
                 x == local[p].userId
                 y == local[p].recipient
             IN  /\ BalanceIn(wallets', x) = BalanceIn(wallets, x) - a
                 /\ BalanceIn(wallets', y) = BalanceIn(wallets, y) + a
                 /\ txns \subseteq txns'
                 /\ Cardinality(NewRows) = 2
                 /\ \E o, i \in NewRows :
                       /\ o.type = "transfer_out" /\ o.userId = x /\ o.amount = 0 - a
                       /\ i.type = "transfer_in" /\ i.userId = y /\ i.amount = a
                       /\ o.amount + i.amount = 0]_vars

\* A transfer has committed: its two rows are in the table.
C4_Witness ==
    \E p \in Procs :
        /\ res[p].op = "transfer" /\ res[p].outcome = "success"
        /\ \E o, i \in txns :
              /\ o.reference = res[p].reference /\ o.type = "transfer_out"
              /\ i.type = "transfer_in" /\ i.key = o.key
              /\ i.userId # o.userId /\ Balance(i.userId) >= i.amount

\* C5: a transfer called again with the same (fromUserId, toWalletNumber,
\* amount) after the first call has committed changes no balance and adds no
\* row, and returns success with the reference the first call returned, the
\* sender's.  (A call whose $transaction itself breaks down is left aside.)
C5_RepeatReturnsOriginal ==
    [][\A p \in Procs :
          (local[p].op = "transfer" /\ local[p].dup /\ Ends(p)
           /\ res'[p].outcome # "aborted") =>
             /\ res'[p].outcome = "duplicate"
             /\ \E o \in txns : /\ o.type = "transfer_out" /\ o.key = KeyOf(p)
                                /\ o.reference = res'[p].reference
             /\ wallets' = wallets
             /\ txns' = txns]_vars

\* C6: a charge webhook delivered for a deposit that an earlier delivery has
\* already settled changes no wallet and no transaction, credits nothing, and
\* answers "already processed".
C6_RedeliveryChangesNothing ==
    [][\A p \in Procs :
          (local[p].op = "handleWebhook" /\ IsChargeEvent(local[p].event)
           /\ local[p].dup /\ Steps(p)) =>
             /\ wallets' = wallets
             /\ txns' = txns
             /\ credits' = credits
             /\ Ends(p)
             /\ res'[p].outcome = "AlreadyProcessed"]_vars

\* Two deliveries for one deposit, one after the other: the first credited the
\* wallet, the second was answered "already processed", one credit in all.
C6_Witness ==
    \E p, q \in Procs :
        /\ res[p].op = "handleWebhook" /\ res[p].outcome = "processed"
        /\ res[q].op = "handleWebhook" /\ res[q].outcome = "AlreadyProcessed"
        /\ res[q].reference = res[p].reference
        /\ CreditCount(res[p].reference) = 1
        /\ TxnOf(res[p].reference).status = "success"

\* Two requests that credit the wallet of the first user have arrived together.
\* That user has two deposits pending; each request is a charge.success
\* delivery for one of them, a verification poll for one of them, or a transfer
\* from the second user.
PendingA == DepositReference(-1, "u1")
PendingB == DepositReference(-3, "u1")
PendingAmount(r) == IF r = PendingA THEN 1 ELSE MaxAmount

CreditJobs ==
    {<<"handleWebhook", r, 0>> : r \in {PendingA, PendingB}}
    \cup {<<"verifyDepositWithPaystack", r, 0>> : r \in {PendingA, PendingB}}
    \cup {<<"transfer", NoRef, a>> : a \in 1..MaxAmount}

\* the position and the locals of a request of the given kind just accepted
JobLabel(j) ==
    IF j[1] = "handleWebhook" THEN "hw_find"
    ELSE IF j[1] = "transfer" THEN "t_recipient" ELSE "vf_find"

JobLocal(j) ==
    IF j[1] = "handleWebhook"
    THEN [IdleLocal EXCEPT !.op = j[1], !.reference = j[2],
             !.event = "charge.success", !.status = "success",
             !.kobo = amountInKobo(PendingAmount(j[2])), !.signed = TRUE]
    ELSE IF j[1] = "transfer"
    THEN [IdleLocal EXCEPT !.op = j[1], !.userId = "u2",
             !.toWalletNumber = InitWallet("u1", 0).walletNumber, !.amount = j[3]]
    ELSE [IdleLocal EXCEPT !.op = j[1], !.reference = j[2]]

InitCredits ==
    /\ \E B \in 0..InitBalance, job \in [Procs -> CreditJobs] :
            /\ wallets = {InitWallet("u1", B), InitWallet("u2", MaxAmount)}
            /\ txns = {DepositRow(DepositReference(-2, "u1"), "u1", B, "success"),
                       DepositRow(DepositReference(-2, "u2"), "u2", MaxAmount, "success"),
                       DepositRow(PendingA, "u1", PendingAmount(PendingA), "pending"),
                       DepositRow(PendingB, "u1", PendingAmount(PendingB), "pending")}
            /\ pc = [p \in Procs |-> JobLabel(job[p])]
            /\ local = [p \in Procs |-> JobLocal(job[p])]
    /\ credits = [r \in {DepositReference(-2, u) : u \in Users} |-> 1]
    /\ now = 0
    /\ res = [p \in Procs |-> NoResult]

NextCredits ==
    \/ \E p \in Procs : WebhookStep(p)
    \/ \E p \in Procs : VerifyStep(p)
    \/ \E p \in Procs : TransferStep(p)
    \/ \E p \in Procs : TransactionFails(p)

SpecCredits == InitCredits /\ [][NextCredits]_vars

\* Two transfers in opposite directions have arrived together: the first user
\* pays the second while the second pays the first.
Other(u) == IF u = "u1" THEN "u2" ELSE "u1"
SenderOf(p) == IF p = "p1" THEN "u1" ELSE "u2"

InitOpposite ==
    /\ \E b \in [Users -> 1..InitBalance], a \in [Procs -> 1..MaxAmount] :
            /\ InitTables(b, {})
            /\ local = [p \in Procs |->
                           [IdleLocal EXCEPT !.op = "transfer", !.userId = SenderOf(p),
                               !.toWalletNumber =
                                   InitWallet(Other(SenderOf(p)), 0).walletNumber,
                               !.amount = a[p]]]
    /\ now = 0
    /\ pc = [p \in Procs |-> "t_recipient"]
    /\ res = [p \in Procs |-> NoResult]

\* the steps of the two transfers; an open $transaction may be ended from
\* outside, by the database (its deadlock detector) or by Prisma's timeout
NextOpposite ==
    \/ \E p \in Procs : TransferStep(p)
    \/ \E p \in Procs : TransactionFails(p)

SpecOpposite == InitOpposite /\ [][NextOpposite]_vars

\* Either no user has a wallet yet, or the first user's wallet has a number
\* that the clock can produce again.  The users ask for a balance or a deposit.
InitAllocate ==
    /\ \/ wallets = {}
       \/ \E t \in 0..MaxTime :
            wallets = {[userId |-> "u1", walletNumber |-> generateWalletNumber(t, 0),
                        balance |-> 0]}
    /\ txns = {}
    /\ credits = [r \in {} |-> 0]
    /\ now = 0
    /\ pc = [p \in Procs |-> "idle"]
    /\ local = [p \in Procs |-> IdleLocal]
    /\ res = [p \in Procs |-> NoResult]

NextAllocate ==
    \/ \E p \in Procs : CallGetBalance(p)
    \/ \E p \in Procs : CallInitiateDeposit(p)
    \/ \E p \in Procs : WalletStep(p)

SpecAllocate == InitAllocate /\ [][NextAllocate]_vars

\* The requests of Spec together with the two reads.
NextReads ==
    \/ Next
    \/ \E p \in Procs : CallVerifyDepositStatus(p)
    \/ \E p \in Procs : CallGetTransactionHistory(p)
    \/ \E p \in Procs : ReadStep(p)

SpecReads == Init /\ [][NextReads]_vars

\* both requests of the race have been answered
RaceOver == \A p \in Procs : pc[p] = "done"

\* the transfer_out row of the transfer that p was told has succeeded
Committed(p) ==
    {t \in txns : t.reference = res[p].reference /\ t.type = "transfer_out"}

\* the balance the sender had when the race began
RaceBalance == TxnOf(DepositReference(-2, "u1")).amount

\* p committed its transfer, and the balances show that transfer and no other
WonRace(p) ==
    /\ res[p].outcome = "success"
    /\ \E t \in Committed(p) :
          /\ Balance("u1") = RaceBalance + t.amount
          /\ Balance("u2") = 0 - t.amount
          /\ Cardinality(txns) = 3

\* q was answered with the success of the transfer that p committed
AnsweredAsDuplicate(q, p) ==
    /\ res[q].outcome = "duplicate"
    /\ \E t \in Committed(p), d \in txns :
          d.reference = res[q].reference /\ d.key = t.key

\* C7: of two concurrent transfers from one sender whose balance covers only
\* one of them, exactly one commits, and the balances of sender and recipient
\* show that transfer alone.  The other is rejected with InsufficientBalance or
\* aborted, or, when it asks for the same transfer as the first, is answered
\* with the success of the first ("Transfer already processed").
C7_OneOfTwoCommits ==
    RaceOver =>
        \E p, q \in Procs :
            /\ p # q
            /\ WonRace(p)
            /\ \/ res[q].outcome \in {"InsufficientBalance", "aborted"}
               \/ AnsweredAsDuplicate(q, p)

\* C7 as stated: exactly one succeeds and the other is rejected, with
\* InsufficientBalance or by the abort of its $transaction.
C7_OtherIsRejected ==
    RaceOver =>
        \E p, q \in Procs :
            /\ p # q
            /\ WonRace(p)
            /\ res[q].outcome \in {"InsufficientBalance", "aborted"}

\* The race ran with both debits in flight: the loser had read the balance
\* before the winner committed, and its update found the balance changed.
C7_Witness ==
    /\ RaceOver
    /\ \E p, q \in Procs :
          /\ WonRace(p)
          /\ res[q].outcome = "aborted"
          /\ Balance("u1") < RaceBalance

\* C8: under every interleaving, at most one pair of Transaction rows, and so at
\* most one debit and credit, is committed for one idempotency key.
C8_OnePairPerKey ==
    \A o1, o2 \in txns :
        (o1.type = "transfer_out" /\ o2.type = "transfer_out" /\ o1.key = o2.key)
            => o1 = o2

\* C9: a transfer that finds the sender's balance below its amount, at the check
\* before the $transaction or at the check inside it, ends with
\* InsufficientBalance and changes no wallet and no transaction.  (A call whose
\* $transaction itself breaks down is left aside.)
C9_InsufficientBalanceRejected ==
    [][\A p \in Procs :
          (pc[p] \in {"t_sender", "t_fresh"} /\ Steps(p)
           /\ Balance(local[p].userId) < local[p].amount
           /\ res'[p].outcome # "aborted") =>
             /\ Ends(p)
             /\ res'[p].outcome = "InsufficientBalance"
             /\ wallets' = wallets
             /\ txns' = txns]_vars

\* A transfer of more than the sender's balance of 1 was rejected and no
\* transfer has been recorded.
C9_Witness ==
    \E p \in Procs :
        /\ res[p].op = "transfer" /\ res[p].outcome = "InsufficientBalance"
        /\ \E w \in wallets : w.balance = 1
        /\ \A t \in txns : t.type = "deposit"
        /\ \A q \in Procs : pc[q] = "done"

\* C10: handleWebhook runs only for a delivery whose signature header is the
\* HMAC of the body received under the gateway's secret; a delivery turned away
\* for its signature changes no wallet and no transaction.
C10_UnsignedNeverHandled ==
    [][\A p \in Procs :
          /\ local'[p].op = "handleWebhook" => local'[p].signed
          /\ (Steps(p) /\ res'[p].outcome = "SignatureInvalid") =>
                /\ Ends(p)
                /\ wallets' = wallets
                /\ txns' = txns
                /\ credits' = credits]_vars

\* A delivery was turned away for its signature while a deposit it named is
\* still pending.
C10_Witness ==
    \E p \in Procs :
        /\ res[p].op = "paystackWebhook" /\ res[p].outcome = "SignatureInvalid"
        /\ \E t \in txns : t.status = "pending"

\* C11: in every reachable state a user has at most one Wallet row, also when
\* first-time getOrCreateWallet calls for that user run concurrently.
C11_OneWalletPerUser ==
    \A w1, w2 \in wallets : w1.userId = w2.userId => w1 = w2

\* Two first calls for the user without a wallet ran together: both found no
\* wallet, one created it, and the create of the other was refused.
C11_Witness ==
    \E p, q \in Procs :
        /\ res[p].op = "getBalance" /\ res[p].outcome = "ok"
        /\ res[q].op = "getBalance" /\ res[q].outcome = "aborted"
        /\ Cardinality(wallets) = Cardinality(Users)

\* C12: when a signed charge.success delivery with status success and amount
\* 100 * M settles the pending deposit of amount M that initiateDeposit
\* recorded, the wallet of the depositor grows by exactly M, the transaction
\* becomes success and its completedAt is set.
C12_DepositSettles ==
    [][\A p \in Procs :
          (pc[p] = "hw_credit" /\ Ends(p) /\ res'[p].outcome = "processed"
           /\ local[p].kobo = amountInKobo(TxnOf(local[p].reference).amount)) =>
             LET r == local[p].reference
                 u == TxnOf(local[p].reference).userId
                 M == TxnOf(local[p].reference).amount
             IN  /\ BalanceIn(wallets', u) = BalanceIn(wallets, u) + M
                 /\ \E t \in txns' : /\ t.reference = r
                                     /\ t.status = "success"
                                     /\ t.completed]_vars

\* A deposit was initiated by one request and settled by the delivery that
\* followed: one credit, status success, completedAt set.
C12_Witness ==
    \E p, q \in Procs :
        /\ res[p].op = "initiateDeposit" /\ res[p].outcome = "initiated"
        /\ res[q].op = "handleWebhook" /\ res[q].outcome = "processed"
        /\ res[q].reference = res[p].reference
        /\ LET t == TxnOf(res[p].reference)
           IN  /\ t.status = "success" /\ t.completed
               /\ CreditCount(t.reference) = 1
               /\ Balance(t.userId) >= t.amount

\* C13: initiateDeposit writes nothing while it waits for the gateway; when the
\* gateway call fails or times out the call ends with PaymentInitiationFailed
\* and no row is written; a deposit row is written only by a call the gateway
\* has answered, and every pending deposit row carries the handle the gateway
\* returned for its reference.
C13_InitiateThenRecord ==
    [][/\ \A p \in Procs :
             (pc[p] = "id_gateway" /\ Steps(p)) =>
                /\ txns' = txns
                /\ pc'[p] # "id_create" =>
                      /\ Ends(p)
                      /\ res'[p].outcome = "PaymentInitiationFailed"
       /\ \A t \in txns' :
             (t.type = "deposit" /\ ~HasTxn(t.reference)) =>
                \E p \in Procs : /\ pc[p] = "id_create"
                                 /\ local[p].reference = t.reference
                                 /\ local[p].handle = AccessCode(t.reference)
       /\ \A t \in txns' :
             (t.type = "deposit" /\ t.status = "pending") =>
                /\ t.paystackReference = AccessCode(t.reference)
                /\ t.paystackReference # NoAccessCode]_vars

\* One initiation was refused by the gateway and left no row; another was
\* accepted and its pending row holds the handle.
C13_Witness ==
    \E p, q \in Procs :
        /\ res[p].op = "initiateDeposit"
        /\ res[p].outcome = "PaymentInitiationFailed"
        /\ res[q].op = "initiateDeposit" /\ res[q].outcome = "initiated"
        /\ TxnOf(res[q].reference).status = "pending"
        /\ TxnOf(res[q].reference).paystackReference = AccessCode(res[q].reference)
        /\ Cardinality({t \in txns : t.status = "pending"}) = 1

\* the status of the transaction of reference r in table ts
StatusIn(ts, r) == (CHOOSE t \in ts : t.reference = r).status

\* C14: the status update and the balance credit of a settlement take effect
\* together or not at all.  In every step a deposit moves to success exactly
\* when its credit reaches the wallet, and in every state a deposit that is
\* success has been credited and a deposit that has been credited is not pending.
C14_StatusAndCreditTogether ==
    [][\A t \in txns :
          t.type = "deposit" =>
             LET r == t.reference
                 n == CreditCount(r)
                 n2 == IF r \in DOMAIN credits' THEN credits'[r] ELSE 0
             IN  /\ (t.status # "success" /\ StatusIn(txns', r) = "success")
                        => n2 = n + 1
                 /\ n2 > n =>
                        /\ StatusIn(txns', r) = "success"
                        /\ BalanceIn(wallets', t.userId) > BalanceIn(wallets, t.userId)
                 /\ StatusIn(txns', r) = "success" => n2 >= 1
                 /\ n2 >= 1 => StatusIn(txns', r) # "pending"]_vars

\* The $transaction of a delivery broke down after it had begun: the deposit is
\* still pending and nothing has been credited for it.
C14_Witness ==
    \E p \in Procs :
        /\ res[p].op = "handleWebhook" /\ res[p].outcome = "aborted"
        /\ \A u \in Users : WalletOf(u) # NoWallet
        /\ \E t \in txns : /\ t.type = "deposit" /\ t.status = "pending"
                           /\ CreditCount(t.reference) = 0
        /\ \A q \in Procs \ {p} : pc[q] = "idle"

\* C15: verifyDepositWithPaystack for a transaction it found pending marks it
\* failed when the gateway answers 404 and changes no balance; when the gateway
\* call fails in any other way, or the settlement breaks down, the call changes
\* no transaction and no balance and answers with status pending.
C15_NotFoundFailsOtherErrorsWait ==
    [][/\ VerifyBranch("404", "pending") = "vf_abandon"
       /\ VerifyBranch("error", "pending") = "pending"
       /\ \A p \in Procs :
             /\ (pc[p] = "vf_abandon" /\ Steps(p) /\ local[p].seen = "pending") =>
                    /\ StatusIn(txns', local[p].reference) = "failed"
                    /\ wallets' = wallets
                    /\ credits' = credits
                    /\ Ends(p)
                    /\ res'[p].outcome = "abandoned"
             /\ (local[p].op = "verifyDepositWithPaystack" /\ Ends(p)
                 /\ res'[p].outcome = "pending") =>
                    /\ txns' = txns
                    /\ wallets' = wallets
                    /\ credits' = credits
                    /\ res'[p].reference = local[p].reference]_vars

\* One poll met a gateway error and left the deposit pending; the next met a
\* 404 and marked it failed.  Nothing was credited.
C15_Witness ==
    \E p, q \in Procs :
        /\ res[p].op = "verifyDepositWithPaystack" /\ res[p].outcome = "pending"
        /\ res[q].op = "verifyDepositWithPaystack" /\ res[q].outcome = "abandoned"
        /\ res[q].reference = res[p].reference
        /\ TxnOf(res[q].reference).status = "failed"
        /\ CreditCount(res[q].reference) = 0

\* C16: verifyDepositWithPaystack called for a transaction that is already
\* success or failed changes no transaction and no wallet, whatever the gateway
\* answers.
C16_VerifyLeavesSettledAlone ==
    [][\A p \in Procs :
          (local[p].op = "verifyDepositWithPaystack" /\ local[p].dup /\ Steps(p)) =>
             /\ txns' = txns
             /\ wallets' = wallets
             /\ credits' = credits]_vars

\* C17: a transfer is all or nothing.  A step of a transfer changes the Wallet
\* or the Transaction table only when it commits the whole transfer: the call
\* ends with success, the sender is debited, the recipient is credited by the
\* same amount and both rows are added.  A transfer that ends in any other way
\* leaves both balances and the Transaction table as they were.
C17_TransferAllOrNothing ==
    [][\A p \in Procs :
          (local[p].op = "transfer" /\ Steps(p)) =>
             \/ /\ wallets' = wallets
                /\ txns' = txns
             \/ /\ Ends(p)
                /\ res'[p].outcome = "success"
                /\ local[p].recipient # local[p].userId
                /\ BalanceIn(wallets', local[p].userId) =
                       BalanceIn(wallets, local[p].userId) - local[p].amount
                /\ BalanceIn(wallets', local[p].recipient) =
                       BalanceIn(wallets, local[p].recipient) + local[p].amount
                /\ txns \subseteq txns'
                /\ {t.type : t \in NewRows} = {"transfer_out", "transfer_in"}
                /\ \A t \in NewRows : t.key = KeyOf(p)]_vars

\* A transfer was given up inside its $transaction and is the only request so
\* far: no transfer row exists and the sender has what the deposit gave.
C17_Witness ==
    \E p \in Procs :
        /\ res[p].op = "transfer" /\ res[p].outcome = "aborted"
        /\ \A q \in Procs \ {p} : pc[q] = "idle"
        /\ \A t \in txns : t.type = "deposit"
        /\ HasTxn(DepositReference(-2, "u1"))
        /\ Balance("u1") = TxnOf(DepositReference(-2, "u1")).amount

\* C18: the debit of a transfer goes through only if the sender's balance at
\* the time of the write is the balance the transfer read inside its
\* $transaction.  If another writer has changed it in between, the transfer
\* ends there and changes nothing; from the debit to the commit the balance
\* stays the one that was read, and the commit takes the amount off that value.
C18_DebitOnlyOnBalanceRead ==
    [][\A p \in Procs :
          /\ (pc[p] = "t_debit" /\ Steps(p)
              /\ Balance(local[p].userId) # local[p].fresh) =>
                 /\ Ends(p)
                 /\ res'[p].outcome = "aborted"
                 /\ wallets' = wallets
                 /\ txns' = txns
          /\ pc[p] \in {"t_credit", "t_insert"} =>
                 Balance(local[p].userId) = local[p].fresh
          /\ (pc[p] = "t_insert" /\ Ends(p) /\ res'[p].outcome = "success") =>
                 BalanceIn(wallets', local[p].userId) =
                    local[p].fresh - local[p].amount]_vars

\* A deposit was credited to the sender while a transfer of theirs was under
\* way; the transfer was given up and only the credit shows.
C18_Witness ==
    \E p, q \in Procs :
        /\ res[p].op = "transfer" /\ res[p].outcome = "aborted"
        /\ res[q].op = "handleWebhook" /\ res[q].outcome = "processed"
        /\ CreditCount(res[q].reference) = 1
        /\ TxnOf(res[q].reference).userId = "u1"
        /\ \A t \in txns : t.type = "deposit"
        /\ Balance("u1") > 0

RECURSIVE SumAmounts(_)
\* the sum of the amounts of the rows in S
SumAmounts(S) ==
    IF S = {} THEN 0
    ELSE LET t == CHOOSE x \in S : TRUE
         IN  t.amount + SumAmounts(S \ {t})

\* what has been credited to the first user since the two requests arrived,
\* when every settlement came from a delivery: per pending deposit its amount
\* for each credit committed, and the amount of each transfer received
CommittedCredits ==
    CreditCount(PendingA) * PendingAmount(PendingA)
    + CreditCount(PendingB) * PendingAmount(PendingB)
    + SumAmounts({t \in txns : t.type = "transfer_in" /\ t.userId = "u1"})

\* both requests are answered and neither was a verification poll
DeliveriesAndTransfersOver ==
    \A p \in Procs : pc[p] = "done" /\ res[p].op # "verifyDepositWithPaystack"

\* C19: no credit is lost.  Every settlement and every incoming transfer that
\* commits adds its amount to the balance the wallet has at that moment, no
\* other step changes a balance, and once the two requests are answered the
\* balance is the initial balance plus the sum of the credits committed.
C19_NoLostCredit ==
    [][/\ \A p \in Procs :
             /\ (pc[p] \in {"hw_credit", "vf_credit"} /\ Ends(p)
                 /\ res'[p].outcome \in {"processed", "verified"}) =>
                    BalanceIn(wallets', local[p].userId) =
                       BalanceIn(wallets, local[p].userId) + amountInNaira(local[p].kobo)
             /\ (pc[p] = "t_insert" /\ Ends(p) /\ res'[p].outcome = "success") =>
                    BalanceIn(wallets', local[p].recipient) =
                       BalanceIn(wallets, local[p].recipient) + local[p].amount
             /\ (Steps(p) /\ wallets' # wallets) =>
                    /\ pc[p] \in {"hw_credit", "vf_credit", "t_insert"}
                    /\ res'[p].outcome \in {"processed", "verified", "success"}
       /\ DeliveriesAndTransfersOver' =>
             Balance("u1")' = RaceBalance' + CommittedCredits']_vars

\* A delivery for one deposit and a transfer from the second user ran together
\* and both committed: the balance shows both credits.
C19_Witness ==
    \E p, q \in Procs :
        /\ res[p].op = "handleWebhook" /\ res[p].outcome = "processed"
        /\ res[q].op = "transfer" /\ res[q].outcome = "success"
        /\ pc[p] = "done" /\ pc[q] = "done"
        /\ CommittedCredits >= 2
        /\ Balance("u1") = RaceBalance + CommittedCredits

\* p has debited its sender and waits for the row of its recipient, which
\* another transfer has locked
WaitsForRecipient(p) ==
    pc[p] = "t_credit" /\ WalletLockedByOther(p, local[p].recipient)

C21_SettlesByEventAndStatus ==
    [][\A p \in Procs :
          (pc[p] \in {"hw_update", "hw_credit"} /\ Ends(p)
           /\ res'[p].outcome = "processed") =>
             LET r == local[p].reference
                 u == TxnOf(local[p].reference).userId
             IN  IF local[p].event = "charge.success" /\ local[p].status = "success"
                 THEN /\ StatusIn(txns', r) = "success"
                      /\ BalanceIn(wallets', u) =
                             BalanceIn(wallets, u) + (local[p].kobo \div 100)
                 ELSE /\ StatusIn(txns', r) = "failed"
                      /\ wallets' = wallets
                      /\ credits' = credits]_vars

\* A charge event that did not report success settled the pending deposit to
\* failed; nothing was credited and the wallet holds what it held.
C21_Witness ==
    \E p \in Procs :
        /\ res[p].op = "handleWebhook" /\ res[p].outcome = "processed"
        /\ TxnOf(res[p].reference).status = "failed"
        /\ CreditCount(res[p].reference) = 0
        /\ \A q \in Procs \ {p} : pc[q] = "idle"
        /\ HasTxn(DepositReference(-2, "u1"))
        /\ Balance("u1") = TxnOf(DepositReference(-2, "u1")).amount

\* C22: handleWebhook called with an event that is not a charge event answers
\* "ignored" at once and changes no wallet and no transaction, whatever
\* reference, status and amount the payload holds.
C22_OtherEventsIgnored ==
    [][\A p \in Procs :
          (local[p].op = "handleWebhook" /\ Steps(p)
           /\ local[p].event \notin {"charge.success", "charge.failed"}) =>
             /\ Ends(p)
             /\ res'[p].outcome = "ignored"
             /\ wallets' = wallets
             /\ txns' = txns
             /\ credits' = credits]_vars

\* An event of another family was delivered and ignored while a deposit was
\* pending; the deposit is still pending.
C22_Witness ==
    \E p \in Procs :
        /\ res[p].op = "handleWebhook" /\ res[p].outcome = "ignored"
        /\ \A q \in Procs \ {p} : pc[q] = "idle"
        /\ \E t \in txns : t.status = "pending" /\ CreditCount(t.reference) = 0

\* C23: handleWebhook, for a charge event, and verifyDepositWithPaystack, when
\* the reference they are given belongs to no transaction, fail with NotFound
\* at the lookup and change no wallet and no transaction: nothing is created and
\* nothing is credited.
C23_UnknownReferenceNotFound ==
    [][\A p \in Procs :
          (/\ Steps(p)
           /\ \A t \in txns : t.reference # local[p].reference
           /\ \/ /\ pc[p] = "hw_find"
                 /\ local[p].event \in {"charge.success", "charge.failed"}
              \/ pc[p] = "vf_find") =>
             /\ Ends(p)
             /\ res'[p].outcome = "NotFound"
             /\ wallets' = wallets
             /\ txns' = txns
             /\ credits' = credits]_vars

\* A charge delivery and a verification poll both named a reference that no
\* transaction has, and both ended with NotFound; only deposits recorded
\* before are in the table.
C23_Witness ==
    \E p, q \in Procs :
        /\ res[p].op = "handleWebhook" /\ res[p].outcome = "NotFound"
        /\ res[q].op = "verifyDepositWithPaystack" /\ res[q].outcome = "NotFound"
        /\ \A t \in txns : t.reference[2] < 0
        /\ \A t \in txns : t.reference # UnknownRef

\* C24: a transfer with an amount of zero or less ends with a validation error
\* in the step in which it is called, before its first storage access: no
\* transfer with such an amount is ever under way, and the rejected call
\* changes no wallet and no transaction.
C24_TransferAmountValidated ==
    [][\A p \in Procs :
          /\ local'[p].op = "transfer" => local'[p].amount > 0
          /\ (Steps(p) /\ res'[p].op = "transfer"
              /\ res'[p].outcome = "ValidationError") =>
                 /\ pc[p] = "idle"
                 /\ Ends(p)
                 /\ wallets' = wallets
                 /\ txns' = txns]_vars

\* A transfer was turned away for its amount; it is the only request so far and
\* the tables hold deposits only.
C24_Witness ==
    \E p \in Procs :
        /\ res[p].op = "transfer" /\ res[p].outcome = "ValidationError"
        /\ \A q \in Procs \ {p} : pc[q] = "idle"
        /\ \A t \in txns : t.type = "deposit"

C26_UnknownRecipientNotFound ==
    [][\A p \in Procs :
          (pc[p] = "t_recipient" /\ Steps(p)
           /\ \A w \in wallets : w.walletNumber # local[p].toWalletNumber) =>
             /\ Ends(p)
             /\ res'[p].outcome = "NotFound"
             /\ wallets' = wallets
             /\ txns' = txns]_vars

\* A funded sender named a wallet number that does not exist: the transfer
\* ended with NotFound and the tables hold deposits only.
C26_Witness ==
    \E p \in Procs :
        /\ res[p].op = "transfer" /\ res[p].outcome = "NotFound"
        /\ \A q \in Procs \ {p} : pc[q] = "idle"
        /\ Balance("u1") = InitBalance
        /\ \A t \in txns : t.type = "deposit"

\* C27: the allocation of a wallet number generates at most 5 candidates.  A
\* candidate found unused ends the loop and is the number the wallet is
\* created with; a candidate found taken leads to the next one, and after the
\* fifth the call fails with AllocationFailed and creates no wallet.
C27_AllocationBounded ==
    [][\A p \in Procs :
          /\ local'[p].attempts < 5
          /\ (pc[p] = "gw_check" /\ Steps(p)) =>
                 IF \A w \in wallets : w.walletNumber # local[p].walletNumber
                 THEN /\ pc'[p] = "gw_create"
                      /\ local'[p].walletNumber = local[p].walletNumber
                 ELSE IF local[p].attempts = 4
                      THEN /\ Ends(p)
                           /\ res'[p].outcome = "AllocationFailed"
                           /\ wallets' = wallets
                      ELSE /\ pc'[p] = "gw_check"
                           /\ local'[p].attempts = local[p].attempts + 1
          /\ (Steps(p) /\ res'[p].outcome = "AllocationFailed") =>
                 pc[p] = "gw_check" /\ local[p].attempts = 4
          /\ (pc[p] = "gw_create" /\ Steps(p) /\ wallets' # wallets) =>
                 wallets' = wallets \cup
                    {[userId |-> local[p].userId,
                      walletNumber |-> local[p].walletNumber, balance |-> 0]}]_vars

\* Five candidates in a row were taken: the call failed and the second user
\* has no wallet.
C27_Witness ==
    \E p \in Procs :
        /\ res[p].outcome = "AllocationFailed"
        /\ WalletOf("u2") = NoWallet
        /\ WalletOf("u1") # NoWallet
        /\ \A q \in Procs \ {p} : pc[q] = "idle"

\* C28: a reference that is already taken is never stored a second time.  The
\* createMany of a transfer that meets one (or whose two rows would share one)
\* throws and rolls the whole $transaction back, so that balances and rows are
\* as before; the create of initiateDeposit that meets one fails the call and
\* adds no row.
C28_ReferenceCollisionAborts ==
    [][/\ \A table \in {txns, txns'} : \A t1, t2 \in table :
             t1.reference = t2.reference => t1 = t2
       /\ \A p \in Procs :
             /\ (pc[p] = "t_insert" /\ Steps(p)
                 /\ LET s == TransferReference(now', local[p].userId)
                        r == TransferReference(now', local[p].recipient)
                    IN  s = r \/ HasTxn(s) \/ HasTxn(r)) =>
                    /\ Ends(p)
                    /\ res'[p].outcome = "aborted"
                    /\ wallets' = wallets
                    /\ txns' = txns
             /\ (pc[p] = "id_create" /\ Steps(p) /\ HasTxn(local[p].reference)) =>
                    /\ Ends(p)
                    /\ res'[p].outcome = "PaymentInitiationFailed"
                    /\ wallets' = wallets
                    /\ txns' = txns]_vars

\* Two transfers of one sender took the same timestamp: the first committed
\* its pair, the second was refused on the sender reference and left nothing.
C28_Witness ==
    \E p, q \in Procs :
        /\ res[p].op = "transfer" /\ res[p].outcome = "success"
        /\ res[q].op = "transfer" /\ res[q].outcome = "aborted"
        /\ res[q].reference = res[p].reference
        /\ Cardinality({t \in txns : t.reference = res[p].reference}) = 1
        /\ Cardinality({t \in txns : t.type = "transfer_out"}) = 1

\* C29: a call of getBalance (getWalletDetails runs the same getOrCreateWallet)
\* changes the tables in one way only: when the caller has no wallet it adds
\* one for the caller with balance 0.  When the caller has a wallet no step of
\* the call changes anything, and no step changes a wallet that exists or a
\* Transaction row.
C29_ReadsOnlyCreateWallet ==
    [][\A p \in Procs :
          (local[p].op = "getBalance" /\ Steps(p)) =>
             /\ txns' = txns
             /\ wallets \subseteq wallets'
             /\ \A w \in wallets' \ wallets :
                   /\ \A v \in wallets : v.userId # w.userId
                   /\ w.userId = local[p].userId
                   /\ w.balance = 0
             /\ Cardinality(wallets' \ wallets) <= 1]_vars

\* The only call so far asked for the balance of the user without a wallet:
\* the wallet now exists, with balance 0 and a number generated by the call.
C29_Witness ==
    \E p \in Procs :
        /\ res[p].op = "getBalance" /\ res[p].outcome = "ok"
        /\ \A q \in Procs \ {p} : pc[q] = "idle"
        /\ WalletOf("u2") # NoWallet
        /\ WalletOf("u2") # InitWallet("u2", 0)
        /\ Balance("u2") = 0

\* C30: in every reachable state the transfer rows come in matched pairs: every
\* transfer_out row has exactly one transfer_in row with its idempotency key
\* and the opposite amount, and every transfer_in row has exactly one such
\* transfer_out row.
C30_TransferRowsPaired ==
    \A t \in txns :
        /\ t.type = "transfer_out" =>
               Cardinality({i \in txns : /\ i.type = "transfer_in"
                                         /\ i.key = t.key
                                         /\ i.amount = 0 - t.amount}) = 1
        /\ t.type = "transfer_in" =>
               Cardinality({o \in txns : /\ o.type = "transfer_out"
                                         /\ o.key = t.key
                                         /\ o.amount = 0 - t.amount}) = 1

\* C31: getTransactionHistory and verifyDepositStatus are reads.  No step of
\* either changes a wallet, a transaction or the count of credits, and the list
\* getTransactionHistory returns holds each transaction of the caller once, no
\* other, with the fields as stored, the newest first.
C31_ReadsChangeNothing ==
    [][\A p \in Procs :
          /\ ((local[p].op \in {"getTransactionHistory", "verifyDepositStatus"}
                  \/ local'[p].op \in {"getTransactionHistory", "verifyDepositStatus"})
              /\ Steps(p)) =>
                 /\ wallets' = wallets
                 /\ txns' = txns
                 /\ credits' = credits
          /\ (pc[p] = "vs_find" /\ Steps(p) /\ HasTxn(local[p].reference)) =>
                 res'[p].outcome = StatusIn(txns', local[p].reference)
          /\ (pc[p] = "th_find" /\ Steps(p)) =>
                 LET s == local'[p].history
                     mine == {t \in txns : t.userId = local[p].userId}
                 IN  /\ Len(s) = Cardinality(mine)
                     /\ {s[i].reference : i \in 1..Len(s)} =
                            {t.reference : t \in mine}
                     /\ \A i \in 1..Len(s) :
                           LET t == TxnOf(s[i].reference)
                           IN  /\ s[i].type = t.type
                               /\ s[i].amount = t.amount
                               /\ s[i].status = t.status
                               /\ s[i].createdAt = t.createdAt
                     /\ \A i \in 1..(Len(s) - 1) :
                           s[i].createdAt >= s[i + 1].createdAt]_vars

\* A history was returned after a deposit was initiated: it lists the new
\* pending deposit before the older settled one, and the tables hold them still.
C31_Witness ==
    \E p, q \in Procs :
        /\ res[p].op = "getTransactionHistory" /\ res[p].outcome = "ok"
        /\ res[q].op = "initiateDeposit" /\ res[q].outcome = "initiated"
        /\ Len(local[p].history) >= 2
        /\ local[p].history[1].reference = res[q].reference
        /\ local[p].history[1].createdAt > local[p].history[2].createdAt
        /\ \A i \in 1..Len(local[p].history) : HasTxn(local[p].history[i].reference)

\* C32: in every reachable state the balance of each wallet is the sum of the
\* amounts of its user's transactions of status success.
C32_BalanceIsSumOfRows ==
    \A w \in wallets :
        w.balance = SumAmounts({t \in txns : t.userId = w.userId /\ t.status = "success"})

\* C33: the settlement of a deposit as success, by a delivery or by a
\* verification, adds to the wallet the amount recorded on the deposit's row,
\* whatever amount the gateway reports.
C33_CreditIsRecordedAmount ==
    [][\A p \in Procs :
          (pc[p] \in {"hw_credit", "vf_credit"} /\ Steps(p)
           /\ StatusIn(txns', local[p].reference) = "success"
           /\ StatusIn(txns, local[p].reference) = "pending") =>
              BalanceIn(wallets', local[p].userId) =
                 BalanceIn(wallets, local[p].userId) + TxnOf(local[p].reference).amount]_vars

RECURSIVE TotalBalance(_)
\* the sum of the balances of the wallets in ws
TotalBalance(ws) ==
    IF ws = {} THEN 0
    ELSE LET w == CHOOSE x \in ws : TRUE
         IN  w.balance + TotalBalance(ws \ {w})

\* C34: the sum of all balances changes only in the step that settles a deposit
\* as success.  Every step of a transfer, of initiateDeposit and of
\* getOrCreateWallet, and every settlement to failed, leaves the sum as it was.
C34_TotalChangesOnlyOnCredit ==
    [][/\ TotalBalance(wallets') # TotalBalance(wallets) =>
             \E p \in Procs :
                 /\ pc[p] \in {"hw_credit", "vf_credit"} /\ Steps(p)
                 /\ StatusIn(txns', local[p].reference) = "success"
       /\ \A p \in Procs :
             (Steps(p) /\ \/ local[p].op \in {"transfer", "initiateDeposit", "getBalance"}
                          \/ \E t \in txns' : /\ t.reference = local[p].reference
                                                /\ t.status = "failed") =>
                 TotalBalance(wallets') = TotalBalance(wallets)]_vars

\* A transfer moved money between two wallets and a deposit was settled as
\* failed: the total is what the two wallets started with.
C34_Witness ==
    \E p, q \in Procs :
        /\ res[p].op = "transfer" /\ res[p].outcome = "success"
        /\ res[q].op \in {"handleWebhook", "verifyDepositWithPaystack"}
        /\ HasTxn(res[q].reference) /\ TxnOf(res[q].reference).status = "failed"
        /\ Balance("u2") > 0
        /\ TotalBalance(wallets) =
               SumAmounts({t \in txns : /\ t.type = "deposit"
                                        /\ t.createdAt = -2})

\* C35: a transfer to the sender's own wallet number changes nothing.  No step
\* of it changes a wallet or a transaction and it never ends in success; when
\* it reaches the createMany, its two rows have one reference and the
\* $transaction is rolled back.
C35_SelfTransferChangesNothing ==
    [][\A p \in Procs :
          (/\ local[p].op = "transfer" /\ Steps(p)
           /\ WalletOf(local[p].userId) # NoWallet
           /\ local[p].toWalletNumber = WalletOf(local[p].userId).walletNumber) =>
              /\ wallets' = wallets
              /\ txns' = txns
              /\ Ends(p) => res'[p].outcome \in {"InsufficientBalance", "aborted"}
              /\ pc[p] = "t_insert" =>
                    /\ Ends(p)
                    /\ res'[p].outcome = "aborted"
                    /\ TransferReference(now', local[p].userId) =
                          TransferReference(now', local[p].recipient)]_vars

\* The only request so far was a transfer that got as far as its createMany
\* and was refused there, with no other transfer to collide with: a transfer
\* to the sender's own wallet.  The sender has the balance they started with.
C35_Witness ==
    \E p \in Procs :
        /\ res[p].op = "transfer" /\ res[p].outcome = "aborted"
        /\ res[p].reference # NoRef
        /\ \A q \in Procs \ {p} : pc[q] = "idle"
        /\ \A t \in txns : t.type = "deposit" /\ t.createdAt < 0
        /\ Balance(res[p].reference[3]) =
               SumAmounts({t \in txns : /\ t.userId = res[p].reference[3]
                                        /\ t.status = "success"})
        /\ Balance(res[p].reference[3]) > 0

\* C36: in every reachable state the user of every transaction has a wallet,
\* and a settlement that is about to credit finds the wallet of the deposit's
\* user: the create branch of its upsert is never the one taken.
C36_EveryRowHasWallet ==
    /\ \A t \in txns : \E w \in wallets : w.userId = t.userId
    /\ \A p \in Procs :
          pc[p] \in {"hw_credit", "vf_credit"} =>
             \E w \in wallets : w.userId = local[p].userId

\* The user without a wallet initiated a deposit, which created the wallet and
\* then the row; a delivery settled it and the credit went to that wallet.
C36_Witness ==
    \E p, q \in Procs :
        /\ res[p].op = "initiateDeposit" /\ res[p].outcome = "initiated"
        /\ res[p].reference[3] = "u2"
        /\ res[q].op = "handleWebhook" /\ res[q].outcome = "processed"
        /\ res[q].reference = res[p].reference
        /\ WalletOf("u2") # NoWallet
        /\ WalletOf("u2").walletNumber[1] >= 0
        /\ Balance("u2") > 0

\* C37: in every reachable state no two wallets have the same walletNumber.  A
\* create whose candidate has meanwhile been taken by another user's wallet is
\* refused and stores nothing.
C37_WalletNumbersUnique ==
    [][/\ \A table \in {wallets, wallets'} : \A w1, w2 \in table :
             w1.walletNumber = w2.walletNumber => w1 = w2
       /\ \A p \in Procs :
             (pc[p] = "gw_create" /\ Steps(p)
              /\ \E w \in wallets : /\ w.walletNumber = local[p].walletNumber
                                     /\ w.userId # local[p].userId) =>
                 /\ wallets' = wallets
                 /\ Ends(p)
                 /\ res'[p].outcome = "aborted"]_vars

\* Both users asked for their first wallet at the same time and drew the same
\* number: one wallet was created, the other create was refused on the
\* walletNumber and that user has no wallet.
C37_Witness ==
    \E p, q \in Procs :
        /\ res[p].outcome \in {"ok", "initiated", "PaymentInitiationFailed"}
        /\ res[q].outcome = "aborted"
        /\ res[q].reference = UniqueViolation("walletNumber")
        /\ Cardinality(wallets) = 1

\* C38: no step of initiateDeposit changes the balance of a wallet, whether the
\* gateway accepts the charge or not: the wallets that exist keep their rows,
\* the only wallet it may add is the caller's with balance 0, and the deposit
\* it records is pending and has been credited to nobody.
C38_InitiateLeavesBalances ==
    [][\A p \in Procs :
          ((local[p].op = "initiateDeposit" \/ local'[p].op = "initiateDeposit")
           /\ Steps(p)) =>
              /\ wallets \subseteq wallets'
              /\ \A w \in wallets' \ wallets :
                    /\ w.balance = 0
                    /\ w.userId = local[p].userId
                    /\ \A v \in wallets : v.userId # w.userId
              /\ credits' = credits
              /\ \A t \in txns' \ txns :
                    t.status = "pending" /\ CreditCount(t.reference) = 0]_vars

\* The first user initiated a deposit of the largest amount, the gateway
\* accepted it and the pending row is stored; the balance is still the sum of
\* what was settled before.
C38_Witness ==
    \E p \in Procs :
        /\ res[p].op = "initiateDeposit" /\ res[p].outcome = "initiated"
        /\ \A q \in Procs \ {p} : pc[q] = "idle"
        /\ TxnOf(res[p].reference).status = "pending"
        /\ TxnOf(res[p].reference).amount = MaxAmount
        /\ Balance(res[p].reference[3]) =
               SumAmounts({t \in txns : /\ t.userId = res[p].reference[3]
                                        /\ t.status = "success"})

====
